---- MODULE Spec2Model ----
(***************************************************************************)
(* Model of Asynkron.Palette: the hue strategies (src/lib/strategies.js),  *)
(* the shade ramp (src/lib/shades.js), the colour conversions              *)
(* (src/lib/color.js) and the palette pipeline of the command line         *)
(* (src/cli.js).                                                           *)
(*                                                                         *)
(* Numbers.  JavaScript numbers are doubles; the model computes in fixed   *)
(* point.  A hue is an integer count of 1/HueScale degrees, and HueScale   *)
(* is chosen so that 360/count (count <= MaxCount) and every midpoint of   *)
(* gap filling are whole numbers of units: the hue arithmetic of the       *)
(* strategies and of gap filling is exact.                                 *)
(***************************************************************************)
EXTENDS Integers, Sequences, FiniteSets, TLC

\* ------------------------------------------------------------------ bounds

\* Largest count handed to generateHues / the command line.
MaxCount == 4

\* Largest number of hues fillLargestGaps is asked for in a direct call.
MaxNeeded == 3

RECURSIVE Lcm1To(_)
Gcd(a, b) == CHOOSE g \in 1..a : a % g = 0 /\ b % g = 0 /\
                 \A h \in 1..a : (a % h = 0 /\ b % h = 0) => h <= g
Lcm1To(n) == IF n <= 1 THEN 1 ELSE LET l == Lcm1To(n - 1) IN (l * n) \div Gcd(l, n)

RECURSIVE Pow2(_)
Pow2(n) == IF n <= 0 THEN 1 ELSE 2 * Pow2(n - 1)

\* Units per degree: every 360/count and every repeated halving is exact.
HueScale == Lcm1To(MaxCount) * Pow2(MaxNeeded)
Deg(d)   == d * HueScale
Turn     == Deg(360)

\* JavaScript's % : the remainder takes the sign of the dividend.
JsRem(a, b) == IF a >= 0 THEN a % b ELSE 0 - ((0 - a) % b)

Min(a, b) == IF a < b THEN a ELSE b
Max(a, b) == IF a > b THEN a ELSE b

\* Array.prototype.slice(0, end): a negative end counts from the back.
Slice0(s, end) ==
    LET to == IF end < 0 THEN Max(Len(s) + end, 0) ELSE Min(end, Len(s))
    IN  SubSeq(s, 1, to)

\* --------------------------------------------------------- fixed point

\* A real number x (a lightness, a chroma, a linear channel, a channel value
\* 0..255) is the integer nearest to x * S.
S == 10 * 1000

\* a / b to the nearest integer (b > 0).
RoundDiv(a, b) == (2 * a + b) \div (2 * b)
MulFx(a, b)    == RoundDiv(a * b, S)
Abs(a)         == IF a < 0 THEN 0 - a ELSE a

\* Math.round of a fixed-point number, as an integer.
Round(x) == (x + (S \div 2)) \div S

\* Math.sqrt of n, where n is a product of two fixed-point numbers.
RECURSIVE SqrtSearch(_, _, _)
SqrtSearch(n, lo, hi) ==
    IF lo >= hi THEN lo
    ELSE LET mid == (lo + hi + 1) \div 2
         IN  IF mid * mid <= n THEN SqrtSearch(n, mid, hi) ELSE SqrtSearch(n, lo, mid - 1)
Sqrt(n) == SqrtSearch(n, 0, 2 * S)

\* x * x * x / S, rounded down, without leaving 32 bits.
CubeOverS(x) ==
    LET a == x * x
    IN  (a \div S) * x + ((a % S) * x) \div S

\* y ** 3 <= x, for fixed-point numbers y >= 0 and x >= 0.
CubeAtMost(y, x) ==
    \/ CubeOverS(y) < x * S
    \/ CubeOverS(y) = x * S /\ (((y * y) % S) * y) % S = 0

\* x ** 3, and Math.cbrt(x) for x >= 0: the largest y with y ** 3 <= x.
Cube(x) == RoundDiv(CubeOverS(x), S)
RECURSIVE CbrtSearch(_, _, _)
CbrtSearch(x, lo, hi) ==
    IF lo >= hi THEN lo
    ELSE LET mid == (lo + hi + 1) \div 2
         IN  IF CubeAtMost(mid, x) THEN CbrtSearch(x, mid, hi)
             ELSE CbrtSearch(x, lo, mid - 1)
Cbrt(x) == CbrtSearch(x, 0, 2 * S)

\* Math.sin at whole degrees 0..90; between them the model interpolates.
SIN_TABLE ==
    <<0, 175, 349, 523, 698, 872, 1045, 1219, 1392, 1564, 1736, 1908, 2079,
      2250, 2419, 2588, 2756, 2924, 3090, 3256, 3420, 3584, 3746, 3907, 4067, 4226,
      4384, 4540, 4695, 4848, 5000, 5150, 5299, 5446, 5592, 5736, 5878, 6018, 6157,
      6293, 6428, 6561, 6691, 6820, 6947, 7071, 7193, 7314, 7431, 7547, 7660, 7771,
      7880, 7986, 8090, 8192, 8290, 8387, 8480, 8572, 8660, 8746, 8829, 8910, 8988,
      9063, 9135, 9205, 9272, 9336, 9397, 9455, 9511, 9563, 9613, 9659, 9703, 9744,
      9781, 9816, 9848, 9877, 9903, 9925, 9945, 9962, 9976, 9986, 9994, 9998, 10000>>

\* sin of a hue in the first quadrant (0 <= h <= 90 degrees).
SinQ(h) ==
    LET d == h \div HueScale
        f == h % HueScale
    IN  IF f = 0 THEN SIN_TABLE[d + 1]
        ELSE SIN_TABLE[d + 1] + ((SIN_TABLE[d + 2] - SIN_TABLE[d + 1]) * f) \div HueScale

\* Math.sin and Math.cos of a hue (any sign, any size).
Sin(h) ==
    LET a == h % Turn
    IN  IF a <= Deg(90) THEN SinQ(a)
        ELSE IF a <= Deg(180) THEN SinQ(Deg(180) - a)
        ELSE IF a <= Deg(270) THEN 0 - SinQ(a - Deg(180))
        ELSE 0 - SinQ(Turn - a)
Cos(h) == Sin(h + Deg(90))

\* Math.atan2(b, a) * 180 / Math.PI, a hue in (-180, 180] degrees.
RECURSIVE AtanSearch(_, _, _, _)
AtanSearch(b, a, lo, hi) ==
    IF lo >= hi THEN lo
    ELSE LET mid == (lo + hi + 1) \div 2
         IN  IF SinQ(mid) * a <= SinQ(Deg(90) - mid) * b
             THEN AtanSearch(b, a, mid, hi)
             ELSE AtanSearch(b, a, lo, mid - 1)
Atan2(b, a) ==
    IF a = 0 /\ b = 0 THEN 0
    ELSE LET q == AtanSearch(Abs(b), Abs(a), 0, Deg(90))
         IN  IF a >= 0 THEN (IF b >= 0 THEN q ELSE 0 - q)
             ELSE (IF b >= 0 THEN Deg(180) - q ELSE q - Deg(180))

\* ------------------------------------------------------ src/lib/color.js

\* A hex colour is the sequence of its characters, "#" included.
LowerDigits == <<"0", "1", "2", "3", "4", "5", "6", "7", "8", "9",
                 "a", "b", "c", "d", "e", "f">>
UpperDigits == <<"0", "1", "2", "3", "4", "5", "6", "7", "8", "9",
                 "A", "B", "C", "D", "E", "F">>
IsHexDigit(ch) == \E v \in 1..16 : LowerDigits[v] = ch \/ UpperDigits[v] = ch
DigitValue(ch) == (CHOOSE v \in 1..16 : LowerDigits[v] = ch \/ UpperDigits[v] = ch) - 1

\* parseInt(two characters, 16).
ParseByte(hi, lo) == 16 * DigitValue(hi) + DigitValue(lo)

\* hex.replace('#', ''): the first "#" is removed.
RECURSIVE RemoveFirstHash(_)
RemoveFirstHash(s) ==
    IF s = <<>> THEN <<>>
    ELSE IF Head(s) = "#" THEN Tail(s)
    ELSE <<Head(s)>> \o RemoveFirstHash(Tail(s))

hexToRgb(hex) ==
    LET bare == RemoveFirstHash(hex)
        six  == IF Len(bare) = 3
                THEN <<bare[1], bare[1], bare[2], bare[2], bare[3], bare[3]>>
                ELSE bare
    IN  <<ParseByte(six[1], six[2]), ParseByte(six[3], six[4]), ParseByte(six[5], six[6])>>

\* v.toString(16).padStart(2, '0') of a clamped, rounded channel.
ByteHex(v) == <<LowerDigits[(v \div 16) + 1], LowerDigits[(v % 16) + 1]>>
Clamp(x)   == Max(0, Min(255, Round(x)))

rgbToHex(rgb) ==
    <<"#">> \o ByteHex(Clamp(rgb[1])) \o ByteHex(Clamp(rgb[2])) \o ByteHex(Clamp(rgb[3]))

\* srgbToLinear at each channel value 0..255:
\* c/255 <= 0.04045 ? c/255/12.92 : ((c/255 + 0.055) / 1.055) ** 2.4
SRGB_LINEAR ==
    <<0, 3, 6, 9, 12, 15, 18, 21, 24, 27, 30, 33, 37, 40, 44, 48,
      52, 56, 60, 65, 70, 75, 80, 86, 91, 97, 103, 110, 116, 123, 130, 137,
      144, 152, 160, 168, 176, 185, 194, 203, 212, 222, 232, 242, 252, 262, 273, 284,
      296, 307, 319, 331, 343, 356, 369, 382, 395, 409, 423, 437, 452, 467, 482, 497,
      513, 529, 545, 561, 578, 595, 612, 630, 648, 666, 685, 704, 723, 742, 762, 782,
      802, 823, 844, 865, 887, 908, 931, 953, 976, 999, 1022, 1046, 1070, 1095, 1119, 1144,
      1170, 1195, 1221, 1248, 1274, 1301, 1329, 1356, 1384, 1413, 1441, 1470, 1500, 1529, 1559, 1590,
      1620, 1651, 1683, 1714, 1746, 1779, 1812, 1845, 1878, 1912, 1946, 1981, 2016, 2051, 2086, 2122,
      2159, 2195, 2232, 2270, 2307, 2346, 2384, 2423, 2462, 2502, 2542, 2582, 2623, 2664, 2705, 2747,
      2789, 2831, 2874, 2918, 2961, 3005, 3050, 3095, 3140, 3185, 3231, 3278, 3325, 3372, 3419, 3467,
      3515, 3564, 3613, 3663, 3712, 3763, 3813, 3864, 3916, 3968, 4020, 4072, 4125, 4179, 4233, 4287,
      4342, 4397, 4452, 4508, 4564, 4621, 4678, 4735, 4793, 4851, 4910, 4969, 5029, 5089, 5149, 5210,
      5271, 5333, 5395, 5457, 5520, 5583, 5647, 5711, 5776, 5841, 5906, 5972, 6038, 6105, 6172, 6240,
      6308, 6376, 6445, 6514, 6584, 6654, 6724, 6795, 6867, 6939, 7011, 7084, 7157, 7231, 7305, 7379,
      7454, 7529, 7605, 7682, 7758, 7835, 7913, 7991, 8070, 8148, 8228, 8308, 8388, 8469, 8550, 8632,
      8714, 8796, 8879, 8963, 9047, 9131, 9216, 9301, 9387, 9473, 9560, 9647, 9734, 9823, 9911, 10000>>

srgbToLinear(c) == SRGB_LINEAR[c + 1]

\* linearToSrgb: the clamp to [0, 1], then the inverse of the curve above
\* (c <= 0.0031308 ? c * 12.92 : 1.055 * c ** (1/2.4) - 0.055) * 255, found
\* between the two channel values whose linear values enclose c.
RECURSIVE GammaSearch(_, _, _)
GammaSearch(c, lo, hi) ==
    IF lo >= hi THEN lo
    ELSE LET mid == (lo + hi + 1) \div 2
         IN  IF srgbToLinear(mid) <= c THEN GammaSearch(c, mid, hi)
             ELSE GammaSearch(c, lo, mid - 1)

linearToSrgb(c0) ==
    LET c == Max(0, Min(S, c0))
        v == GammaSearch(c, 0, 255)
    IN  IF v = 255 THEN 255 * S
        ELSE v * S + RoundDiv((c - srgbToLinear(v)) * S, srgbToLinear(v + 1) - srgbToLinear(v))

\* [r, g, b] (channel values 0..255) to [L, C, H].
rgbToOklch(rgb) ==
    LET lr == srgbToLinear(rgb[1])
        lg == srgbToLinear(rgb[2])
        lb == srgbToLinear(rgb[3])
        l  == RoundDiv(41222 * lr + 53633 * lg + 5145 * lb, 10 * S)
        m  == RoundDiv(21190 * lr + 68070 * lg + 10740 * lb, 10 * S)
        s  == RoundDiv(8830 * lr + 28172 * lg + 62998 * lb, 10 * S)
        l_ == Cbrt(l)
        m_ == Cbrt(m)
        s_ == Cbrt(s)
        L  == RoundDiv(2105 * l_ + 7936 * m_ - 41 * s_, S)
        A  == RoundDiv(19780 * l_ - 24286 * m_ + 4506 * s_, S)
        B  == RoundDiv(259 * l_ + 7828 * m_ - 8087 * s_, S)
        C  == Sqrt(A * A + B * B)
        H0 == Atan2(B, A)
        H  == IF H0 < 0 THEN H0 + Turn ELSE H0
    IN  <<L, C, H>>

\* [L, C, H] to [r, g, b], each a real number in [0, 255].
oklchToRgb(L, C, H) ==
    LET A  == MulFx(C, Cos(H))
        B  == MulFx(C, Sin(H))
        l_ == L + RoundDiv(3963 * A + 2158 * B, S)
        m_ == L - RoundDiv(1056 * A + 639 * B, S)
        s_ == L - RoundDiv(895 * A + 12915 * B, S)
        l  == Cube(l_)
        m  == Cube(m_)
        s  == Cube(s_)
        lr == RoundDiv(40767 * l - 33077 * m + 2310 * s, S)
        lg == RoundDiv(0 - 12684 * l + 26098 * m - 3413 * s, S)
        lb == RoundDiv(0 - 42 * l - 7034 * m + 17076 * s, S)
    IN  <<linearToSrgb(lr), linearToSrgb(lg), linearToSrgb(lb)>>

Max3(a, b, c) == Max(a, Max(b, c))
Min3(a, b, c) == Min(a, Min(b, c))

\* [r, g, b] (channel values 0..255) to [h, s, l]; the divisions by 255 of
\* the source cancel in every quotient.
rgbToHsl(rgb) ==
    LET r   == rgb[1]
        g   == rgb[2]
        b   == rgb[3]
        max == Max3(r, g, b)
        min == Min3(r, g, b)
        l   == RoundDiv((max + min) * S, 2 * 255)
        d   == max - min
        s   == IF max + min > 255 THEN RoundDiv(d * S, 2 * 255 - max - min)
               ELSE RoundDiv(d * S, max + min)
        h   == IF max = r
               THEN RoundDiv(Deg(60) * (g - b), d) + (IF g < b THEN Deg(360) ELSE 0)
               ELSE IF max = g THEN RoundDiv(Deg(60) * (b - r), d) + Deg(120)
               ELSE RoundDiv(Deg(60) * (r - g), d) + Deg(240)
    IN  IF max = min THEN <<0, 0, l>> ELSE <<h, s, l>>

\* A hue as a fraction of the turn (h /= 360).
TurnFraction(h) == RoundDiv(h * (S \div 40), 9 * HueScale)

hue2rgb(p, q, t0) ==
    LET t1 == IF t0 < 0 THEN t0 + S ELSE t0
        t  == IF t1 > S THEN t1 - S ELSE t1
    IN  IF 6 * t < S THEN p + MulFx(q - p, 6 * t)
        ELSE IF 2 * t < S THEN q
        ELSE IF 3 * t < 2 * S THEN p + MulFx(q - p, 4 * S - 6 * t)
        ELSE p

\* [h, s, l] to [r, g, b], each channel rounded to a whole number.
hslToRgb(h0, s, l) ==
    LET h == TurnFraction(h0)
        v == Round(l * 255) * S
        q == IF 2 * l < S THEN MulFx(l, S + s) ELSE l + s - MulFx(l, s)
        p == 2 * l - q
    IN  IF s = 0 THEN <<v, v, v>>
        ELSE <<Round(hue2rgb(p, q, h + RoundDiv(S, 3)) * 255) * S,
               Round(hue2rgb(p, q, h) * 255) * S,
               Round(hue2rgb(p, q, h - RoundDiv(S, 3)) * 255) * S>>

hexToHsl(hex)      == rgbToHsl(hexToRgb(hex))
hslToHex(h, s, l)  == rgbToHex(hslToRgb(h, s, l))
hexToOklch(hex)    == rgbToOklch(hexToRgb(hex))
oklchToHex(L, C, H) == rgbToHex(oklchToRgb(L, C, H))

\* ----------------------------------------------------- src/lib/shades.js

SHADES == <<50, 100, 200, 300, 400, 500, 600, 700, 800, 900, 950>>

\* The interpolation factors, in hundredths.
LIGHTER_T(shade) ==
    CASE shade = 50 -> 92 [] shade = 100 -> 80 [] shade = 200 -> 62
      [] shade = 300 -> 42 [] shade = 400 -> 18
DARKER_T(shade) ==
    CASE shade = 600 -> 18 [] shade = 700 -> 38 [] shade = 800 -> 56
      [] shade = 900 -> 76 [] shade = 950 -> 92

\* The end points of the ramp, in hundredths.
LIGHT_END == 98
DARK_END  == 10

\* One hundredth as a fixed-point number.
Hundredth == S \div 100

\* The lightness L of a shade level, in millionths (a fixed-point number
\* times a factor in hundredths, kept exact); level 500 keeps the base's.
ShadeL(baseL, shade) ==
    IF shade = 500 THEN baseL * 100
    ELSE IF shade < 500
    THEN baseL * 100 + (LIGHT_END * Hundredth - baseL) * LIGHTER_T(shade)
    ELSE baseL * 100 - (baseL - DARK_END * Hundredth) * DARKER_T(shade)

\* cScale: 1 - t * 0.95 towards white, 1 - t * 0.65 towards black.
ChromaScale(shade) ==
    IF shade < 500 THEN S - LIGHTER_T(shade) * 95 ELSE S - DARKER_T(shade) * 65

\* Variant of ShadeHex: level 500 goes through the conversion too.
ShadeHexAlwaysConverted(hex, base, shade) ==
    IF shade = 500 THEN oklchToHex(base[1], base[2], base[3])
    ELSE oklchToHex(RoundDiv(ShadeL(base[1], shade), 100),
                    MulFx(base[2], Max(0, ChromaScale(shade))),
                    base[3])

ShadeHex(hex, base, shade) ==
    IF shade = 500 THEN hex
    ELSE oklchToHex(RoundDiv(ShadeL(base[1], shade), 100),
                    MulFx(base[2], Max(0, ChromaScale(shade))),
                    base[3])

generateShades(hex) ==
    LET base == hexToOklch(hex)
    IN  [j \in 1..Len(SHADES) |-> [shade |-> SHADES[j], hex |-> ShadeHex(hex, base, SHADES[j])]]

\* The lightness generateShades works with at each level.
shadeLightness(hex) ==
    LET base == hexToOklch(hex)
    IN  [j \in 1..Len(SHADES) |-> ShadeL(base[1], SHADES[j])]

\* ------------------------------------------------- src/lib/strategies.js

norm(h) == JsRem(JsRem(h, Turn) + Turn, Turn)

\* 360 / count; a count of 0 gives Infinity, which no caller then uses.
Step(count) == IF count = 0 THEN 0 ELSE Turn \div count

RECURSIVE FillEven(_, _, _, _)
FillEven(hues, anchor, count, i) ==
    IF i < count
    THEN FillEven(Append(hues, norm(anchor + i * Step(count))), anchor, count, i + 1)
    ELSE hues

\* Variant of fromKeyAngles: the fill loop of lines 10-13 is left out.
fromKeyAnglesNoFill(anchor, count, keyAngles) ==
    LET kept == Slice0(keyAngles, count)
    IN  [j \in 1..Len(kept) |-> norm(anchor + Deg(kept[j]))]

\* Variant of fromKeyAngles: the fill index starts again at 0.
RECURSIVE FillEvenFromZero(_, _, _, _)
FillEvenFromZero(hues, anchor, count, i) ==
    IF Len(hues) < count
    THEN FillEvenFromZero(Append(hues, norm(anchor + i * Step(count))), anchor, count, i + 1)
    ELSE hues

fromKeyAnglesRestart(anchor, count, keyAngles) ==
    LET kept == Slice0(keyAngles, count)
        hues == [j \in 1..Len(kept) |-> norm(anchor + Deg(kept[j]))]
    IN  FillEvenFromZero(hues, anchor, count, 0)

fromKeyAngles(anchor, count, keyAngles) ==
    LET kept == Slice0(keyAngles, count)
        hues == [j \in 1..Len(kept) |-> norm(anchor + Deg(kept[j]))]
    IN  FillEven(hues, anchor, count, Len(hues))

EvenlySpaced(anchor, count) ==
    [j \in 1..Max(count, 0) |-> norm(anchor + (j - 1) * Step(count))]

RECURSIVE AnalogousLoop(_, _, _, _)
AnalogousLoop(hues, anchor, count, i) ==
    IF Len(hues) < count
    THEN LET plus == Append(hues, norm(anchor + i * Deg(30)))
             both == IF Len(plus) < count
                     THEN Append(plus, norm(anchor - i * Deg(30)))
                     ELSE plus
         IN  AnalogousLoop(both, anchor, count, i + 1)
    ELSE hues

Analogous(anchor, count) == AnalogousLoop(<<anchor>>, anchor, count, 1)

Complementary(anchor, count)      == fromKeyAngles(anchor, count, <<0, 180>>)
SplitComplementary(anchor, count) == fromKeyAngles(anchor, count, <<0, 150, 210>>)
Triadic(anchor, count)            == fromKeyAngles(anchor, count, <<0, 120, 240>>)
Tetradic(anchor, count)           == fromKeyAngles(anchor, count, <<0, 90, 180, 270>>)

\* Object.keys(strategies), in the order of the object literal.
STRATEGY_NAMES ==
    <<"evenly-spaced", "analogous", "complementary", "split-complementary",
      "triadic", "tetradic">>

KnownStrategies == {STRATEGY_NAMES[j] : j \in 1..Len(STRATEGY_NAMES)}

\* strategies is an object literal, so strategies[name] also finds what
\* Object.prototype holds.  Called as a plain function (this = undefined, the
\* module is strict): toString returns the string "[object Undefined]",
\* valueOf throws TypeError (ToObject(undefined)), and __proto__ is the
\* prototype object itself, which is truthy and not callable (TypeError).
InheritedReturning == {"toString"}
InheritedThrowing  == {"valueOf", "__proto__"}

Applied(name, anchor, count) ==
    CASE name = "evenly-spaced"       -> EvenlySpaced(anchor, count)
      [] name = "analogous"           -> Analogous(anchor, count)
      [] name = "complementary"       -> Complementary(anchor, count)
      [] name = "split-complementary" -> SplitComplementary(anchor, count)
      [] name = "triadic"             -> Triadic(anchor, count)
      [] name = "tetradic"            -> Tetradic(anchor, count)

\* The outcome of a call: kind "hues" (an array of hues), "value" (something
\* that is no array of hues) or the name of the error thrown.
Hues(h)   == [kind |-> "hues", hues |-> h]
Other(k)  == [kind |-> k, hues |-> <<>>]

generateHues(anchorHue, count, strategy) ==
    IF strategy \in KnownStrategies
    THEN Hues(Applied(strategy, anchorHue, count))
    ELSE IF strategy \in InheritedReturning THEN Other("value")
    ELSE IF strategy \in InheritedThrowing THEN Other("TypeError")
    ELSE Hues(EvenlySpaced(anchorHue, count))

\* -------------------------------------------------------------- src/cli.js

\* sort((a, b) => a - b)
RECURSIVE Insert(_, _)
Insert(s, x) ==
    IF s = <<>> THEN <<x>>
    ELSE IF x < Head(s) THEN <<x>> \o s
    ELSE <<Head(s)>> \o Insert(Tail(s), x)
RECURSIVE SortAsc(_)
SortAsc(s) == IF s = <<>> THEN <<>> ELSE Insert(SortAsc(SubSeq(s, 1, Len(s) - 1)), s[Len(s)])

\* The gap that starts at sorted[i]: to the next hue, or around the wheel.
GapAt(sorted, i) ==
    IF i < Len(sorted) THEN sorted[i + 1] - sorted[i]
    ELSE Deg(360) - sorted[i] + sorted[1]

MidAt(sorted, i) == JsRem(sorted[i] + GapAt(sorted, i) \div 2, Deg(360))

\* Variant of GapScan: gap >= maxGap, so the last largest gap wins.
RECURSIVE GapScanLast(_, _, _, _)
GapScanLast(sorted, i, maxGap, bestMid) ==
    IF i > Len(sorted) THEN bestMid
    ELSE IF GapAt(sorted, i) >= maxGap
    THEN GapScanLast(sorted, i + 1, GapAt(sorted, i), MidAt(sorted, i))
    ELSE GapScanLast(sorted, i + 1, maxGap, bestMid)

\* The inner loop of lines 105-113: bestMid after the gaps from i on.
RECURSIVE GapScan(_, _, _, _)
GapScan(sorted, i, maxGap, bestMid) ==
    IF i > Len(sorted) THEN bestMid
    ELSE IF GapAt(sorted, i) > maxGap
    THEN GapScan(sorted, i + 1, GapAt(sorted, i), MidAt(sorted, i))
    ELSE GapScan(sorted, i + 1, maxGap, bestMid)

RECURSIVE FillLoop(_, _, _, _)
FillLoop(hues, result, n, needed) ==
    IF n < needed
    THEN LET bestMid == GapScan(SortAsc(hues), 1, 0, 0)
         IN  FillLoop(Append(hues, bestMid), Append(result, bestMid), n + 1, needed)
    ELSE result

fillLargestGaps(existingHues, needed) == FillLoop(existingHues, <<>>, 0, needed)

isValidHex(hex) ==
    /\ Len(hex) \in {4, 7}
    /\ hex[1] = "#"
    /\ \A j \in 2..Len(hex) : IsHexDigit(hex[j])

\* The mood presets [L, C], and the target of the random colour without one.
MOODS(mood) ==
    CASE mood = "vibrant" -> <<55 * Hundredth, 22 * Hundredth>>
      [] mood = "pastel"  -> <<82 * Hundredth, 7 * Hundredth>>
RandomTarget(mood) ==
    IF mood # "none" THEN MOODS(mood) ELSE <<55 * Hundredth, 15 * Hundredth>>

\* parseArgs, the count: the default, then never fewer than the colours.
ParsedCount(countArg, colors) ==
    LET count == IF countArg.given THEN countArg.n ELSE Max(Len(colors), 3)
    IN  Max(count, Len(colors))

\* names.js, as src/lib/color.js holds it; a count without an entry in
\* NAME_MAPS gives undefined.
Undefined == <<"undefined">>
RECURSIVE MoreNames(_, _, _)
MoreNames(names, i, count) ==
    IF i < count THEN MoreNames(Append(names, "accent-" \o ToString(i - 3)), i + 1, count)
    ELSE names
assignNames(count) ==
    IF count <= 5
    THEN CASE count = 1 -> <<"primary">>
           [] count = 2 -> <<"primary", "secondary">>
           [] count = 3 -> <<"primary", "secondary", "accent">>
           [] count = 4 -> <<"primary", "secondary", "accent", "neutral">>
           [] count = 5 -> <<"primary", "secondary", "tertiary", "accent", "neutral">>
           [] OTHER     -> Undefined
    ELSE MoreNames(<<"primary", "secondary", "tertiary", "accent", "neutral">>, 5, count)

\* array.slice(from)
SliceFrom(s, from) == SubSeq(s, from + 1, Len(s))

\* Variant of FillHues: the strategy is used whatever the number of inputs.
FillHuesStrategyOnly(colors, count, strategy) ==
    SliceFrom(generateHues(hexToHsl(colors[1])[1], count, strategy).hues, Len(colors))

\* Lines 157-167: the hues of the colours still to make.
FillHues(colors, count, strategy) ==
    IF Len(colors) >= 2 /\ count > Len(colors)
    THEN fillLargestGaps([j \in 1..Len(colors) |-> hexToHsl(colors[j])[1]],
                         count - Len(colors))
    ELSE SliceFrom(generateHues(hexToHsl(colors[1])[1], count, strategy).hues, Len(colors))

\* Lines 169-173: inputs first, then the generated fills.
BuildBaseColors(colors, fillHues) ==
    LET anchor == hexToHsl(colors[1])
    IN  colors \o [j \in 1..Len(fillHues) |-> hslToHex(fillHues[j], anchor[2], anchor[3])]

\* Variant of Normalize: the loop starts at 0 with or without a mood.
NormalizeAll(built, raw, mood) ==
    LET anchor  == hexToOklch(built[1])
        targetL == IF mood # "none" THEN MOODS(mood)[1] ELSE anchor[1]
        targetC == IF mood # "none" THEN MOODS(mood)[2] ELSE anchor[2]
    IN  IF raw THEN built
        ELSE [j \in 1..Len(built) |-> oklchToHex(targetL, targetC, hexToOklch(built[j])[3])]

\* Lines 175-185: the normalization.
Normalize(built, raw, mood) ==
    LET anchor  == hexToOklch(built[1])
        targetL == IF mood # "none" THEN MOODS(mood)[1] ELSE anchor[1]
        targetC == IF mood # "none" THEN MOODS(mood)[2] ELSE anchor[2]
        start   == IF mood # "none" THEN 0 ELSE 1
    IN  IF raw THEN built
        ELSE [j \in 1..Len(built) |->
                 IF j - 1 >= start
                 THEN oklchToHex(targetL, targetC, hexToOklch(built[j])[3])
                 ELSE built[j]]

\* Lines 193-202: the lines printed for base colour i (colours and padding
\* of the terminal left out).
RampLines(baseColors, names, nInputs, i) ==
    LET shades == generateShades(baseColors[i])
    IN  [j \in 1..Len(shades) |->
            [name   |-> IF i <= Len(names) THEN names[i] ELSE "undefined",
             shade  |-> shades[j].shade,
             hex    |-> shades[j].hex,
             marker |-> i - 1 < nInputs /\ shades[j].shade = 500]]

Exit(code, colors, count) ==
    [exit |-> code, colors |-> colors, count |-> count, fillHues |-> <<>>,
     built |-> <<>>, baseColors |-> <<>>, output |-> <<>>]

\* main() from line 142 on: colors is what parseArgs collected, or the one
\* random colour of lines 137-140.
Pipeline(colors, count, strategy, raw, mood) ==
    IF \E j \in 1..Len(colors) : ~isValidHex(colors[j]) THEN Exit("1", colors, count)
    ELSE IF strategy \notin KnownStrategies THEN Exit("1", colors, count)
    ELSE LET fillHues   == FillHues(colors, count, strategy)
             built      == BuildBaseColors(colors, fillHues)
             baseColors == Normalize(built, raw, mood)
             names      == assignNames(count)
         IN  IF names = Undefined THEN Exit("TypeError", colors, count)
             ELSE [exit |-> "0", colors |-> colors, count |-> count,
                   fillHues |-> fillHues, built |-> built, baseColors |-> baseColors,
                   output |-> [i \in 1..Len(baseColors) |->
                                  RampLines(baseColors, names, Len(colors), i)]]

\* ------------------------------------------------------------------ state

\* The program keeps no state between calls: each variable records one call
\* of an entry point, its arguments and what it gave.
VARIABLES hueCall, gapCall, shadeCall, run

vars == <<hueCall, gapCall, shadeCall, run>>

\* Anchor hues of direct calls, in degrees: negative, in range, 360 and above.
AnchorDegrees == {-390, -30, 0, 45, 200, 350, 360, 725}

\* Strategy names of direct calls: the six, two nobody defines, three that
\* Object.prototype defines.
StrategyInputs ==
    KnownStrategies \cup {"monochrome", ""} \cup InheritedReturning \cup InheritedThrowing

\* Hues handed to fillLargestGaps in direct calls, in degrees.
GapDegrees == {0, 90, 180, 200, 350}

\* Hex colours: #aa5420 in both cases, white in the short form, black, a
\* blue, a red, and two that isValidHex refuses.
Brown      == <<"#", "a", "a", "5", "4", "2", "0">>
BrownUpper == <<"#", "A", "A", "5", "4", "2", "0">>
WhiteShort == <<"#", "f", "f", "f">>
Black      == <<"#", "0", "0", "0", "0", "0", "0">>
Blue       == <<"#", "3", "3", "6", "6", "f", "f">>
Red        == <<"#", "9", "b", "2", "0", "1", "0">>
TooShort   == <<"#", "1", "2">>
NotHex     == <<"#", "g", "g", "g">>

ValidColors == {Brown, BrownUpper, WhiteShort, Black, Blue, Red}

\* The colours of a command line, in the order given.
ColorLists ==
    {<<Brown>>, <<BrownUpper>>, <<WhiteShort>>, <<Black>>, <<Blue>>,
     <<Brown, Red>>, <<BrownUpper, Blue>>, <<Blue, WhiteShort>>, <<Black, WhiteShort>>,
     <<Brown, Red, Blue>>, <<TooShort>>, <<Brown, NotHex>>}

\* --count: absent, or a whole number.
CountArgs ==
    {[given |-> FALSE, n |-> 0]} \cup {[given |-> TRUE, n |-> c] : c \in 0..MaxCount}

\* Math.random() * 360, in degrees.
RandomDegrees == {0, 123, 359}

NoHueCall   == [called |-> FALSE, anchor |-> 0, count |-> 0, strategy |-> "",
                out |-> Other("none")]
NoGapCall   == [called |-> FALSE, existing |-> <<>>, needed |-> 0, result |-> <<>>]
NoShadeCall == [called |-> FALSE, hex |-> <<>>, L |-> <<>>, ramp |-> <<>>]
NoRun       == [started |-> FALSE, random |-> FALSE, strategy |-> "", raw |-> FALSE,
                mood |-> "none", result |-> Exit("none", <<>>, 0)]

Init ==
    /\ hueCall = NoHueCall
    /\ gapCall = NoGapCall
    /\ shadeCall = NoShadeCall
    /\ run = NoRun

Idle ==
    /\ ~hueCall.called
    /\ ~gapCall.called
    /\ ~shadeCall.called
    /\ ~run.started

\* A direct call generateHues(anchor, count, strategy).
CallGenerateHues ==
    /\ Idle
    /\ \E a \in AnchorDegrees, c \in (0 - MaxCount)..MaxCount, s \in StrategyInputs :
           hueCall' = [called |-> TRUE, anchor |-> Deg(a), count |-> c, strategy |-> s,
                       out |-> generateHues(Deg(a), c, s)]
    /\ UNCHANGED <<gapCall, shadeCall, run>>

\* A direct call fillLargestGaps(existingHues, needed).
CallFillLargestGaps ==
    /\ Idle
    /\ \E a \in GapDegrees, b \in GapDegrees, c \in GapDegrees, len \in 1..3,
          needed \in 0..MaxNeeded :
           LET existing == SubSeq(<<Deg(a), Deg(b), Deg(c)>>, 1, len)
           IN  gapCall' = [called |-> TRUE, existing |-> existing, needed |-> needed,
                           result |-> fillLargestGaps(existing, needed)]
    /\ UNCHANGED <<hueCall, shadeCall, run>>

\* A direct call generateShades(hex).
CallGenerateShades ==
    /\ Idle
    /\ \E hex \in ValidColors :
           shadeCall' = [called |-> TRUE, hex |-> hex, L |-> shadeLightness(hex),
                         ramp |-> generateShades(hex)]
    /\ UNCHANGED <<hueCall, gapCall, run>>

\* Math.random() is asked for a hue only when no colour was given.
RandomHues(colors) ==
    IF Len(colors) = 0 THEN RandomDegrees ELSE {0}

\* main, up to its validation: with no colour, one random colour is pushed.
WithRandomColor(colors, mood, d) ==
    IF Len(colors) = 0
    THEN <<oklchToHex(RandomTarget(mood)[1], RandomTarget(mood)[2], Deg(d))>>
    ELSE colors

\* The process ends: what the run was given and what it wrote.
Exits(random, strategy, raw, mood, result) ==
    /\ Idle
    /\ run' = [started |-> TRUE, random |-> random, strategy |-> strategy,
               raw |-> raw, mood |-> mood, result |-> result]
    /\ UNCHANGED <<hueCall, gapCall, shadeCall>>

\* palette --help
MainHelp ==
    /\ Idle
    /\ run' = [NoRun EXCEPT !.started = TRUE, !.result = Exit("0", <<>>, 0)]
    /\ UNCHANGED <<hueCall, gapCall, shadeCall>>

\* palette [colors...] [--count N] [--strategy NAME] [--raw] [--vibrant | --pastel]
Main ==
    \E colors \in ColorLists \cup {<<>>}, countArg \in CountArgs,
       strategy \in KnownStrategies \cup {"monochrome"},
       raw \in BOOLEAN, mood \in {"none", "vibrant", "pastel"} :
        \E d \in RandomHues(colors) :
            Exits(Len(colors) = 0, strategy, raw, mood,
                  Pipeline(WithRandomColor(colors, mood, d),
                           ParsedCount(countArg, colors), strategy, raw, mood))

Next ==
    \/ CallGenerateHues
    \/ CallFillLargestGaps
    \/ CallGenerateShades
    \/ MainHelp
    \/ Main

Spec == Init /\ [][Next]_vars

\* ----------------------------------------------------------------- claims

HueCalled(strategies) == hueCall.called /\ hueCall.strategy \in strategies
InRange(h) == 0 <= h /\ h < Turn

\* C1: for each of the six strategies, every anchor and every count >= 1,
\* generateHues returns a sequence of exactly count hues.
C1_StrategyCardinality ==
    (HueCalled(KnownStrategies) /\ hueCall.count >= 1) =>
        /\ hueCall.out.kind = "hues"
        /\ Len(hueCall.out.hues) = hueCall.count

C1_Witness ==
    /\ HueCalled({"complementary"})
    /\ hueCall.count = MaxCount
    /\ hueCall.anchor = Deg(350)
    /\ Len(hueCall.out.hues) = MaxCount

\* C2: for every anchor, negative or 360 and above included, every hue that
\* generateHues returns under any of the six strategies, the first
\* included, lies in [0, 360).
C2_EveryHueInRange ==
    (HueCalled(KnownStrategies) /\ hueCall.count >= 1) =>
        \A j \in 1..Len(hueCall.out.hues) : InRange(hueCall.out.hues[j])

\* C3: for every base colour, the lightness of the shade levels 50, 100,
\* ..., 950 (level 500 at the base lightness) is strictly decreasing.
C3_LightnessStrictlyDecreasing ==
    shadeCall.called =>
        \A j \in 1..(Len(shadeCall.L) - 1) : shadeCall.L[j] > shadeCall.L[j + 1]

\* C4: the entry of generateShades(base) at level 500 is the input colour
\* as given, character for character; the other ten entries are recomputed
\* from the OKLCH lightness, chroma and hue of their level.
C4_Shade500IsInput ==
    /\ shadeCall.called =>
          LET base == hexToOklch(shadeCall.hex)
          IN  /\ Len(shadeCall.ramp) = Len(SHADES)
              /\ \A j \in 1..Len(SHADES) :
                     /\ shadeCall.ramp[j].shade = SHADES[j]
                     /\ shadeCall.ramp[j].hex =
                            IF SHADES[j] = 500 THEN shadeCall.hex
                            ELSE oklchToHex(RoundDiv(shadeCall.L[j], 100),
                                            MulFx(base[2], Max(0, ChromaScale(SHADES[j]))),
                                            base[3])
    /\ (run.started /\ run.result.exit = "0") =>
          \A i \in 1..Len(run.result.output) :
              \A j \in 1..Len(run.result.output[i]) :
                  run.result.output[i][j].shade = 500 =>
                      run.result.output[i][j].hex = run.result.baseColors[i]

C4_Witness ==
    /\ shadeCall.called
    /\ shadeCall.hex = BrownUpper
    /\ shadeCall.ramp[6] = [shade |-> 500, hex |-> BrownUpper]
    /\ rgbToHex([c \in 1..3 |-> hexToRgb(BrownUpper)[c] * S]) # BrownUpper
    /\ \A j \in 1..Len(SHADES) : j # 6 => shadeCall.ramp[j].hex # BrownUpper

\* The circular gap that starts at the i-th of the hues placed so far, taken
\* in ascending order, and its midpoint.
CircularGap(placed, i) ==
    IF i < Len(placed) THEN placed[i + 1] - placed[i]
    ELSE placed[1] + Turn - placed[i]
CircularMid(placed, i) == (placed[i] + CircularGap(placed, i) \div 2) % Turn

\* C5: gap filling inserts one hue at a time; each is the midpoint of a
\* circular gap that is largest among the gaps between the hues placed so
\* far (the given ones and the earlier insertions), the first such gap in
\* ascending hue order; hues [0, 180] with needed = 1 give 90.
C5_GapFillingGreedyMidpoint ==
    gapCall.called =>
        /\ Len(gapCall.result) = gapCall.needed
        /\ \A n \in 1..Len(gapCall.result) :
               LET placed == SortAsc(gapCall.existing \o SubSeq(gapCall.result, 1, n - 1))
               IN  \E i \in 1..Len(placed) :
                       /\ gapCall.result[n] = CircularMid(placed, i)
                       /\ \A k \in 1..Len(placed) :
                              CircularGap(placed, k) <= CircularGap(placed, i)
                       /\ \A k \in 1..(i - 1) :
                              CircularGap(placed, k) < CircularGap(placed, i)
        /\ (gapCall.existing = <<Deg(0), Deg(180)>> /\ gapCall.needed = 1) =>
               gapCall.result = <<Deg(90)>>

C5_Witness ==
    /\ gapCall.called
    /\ gapCall.existing = <<Deg(0), Deg(180)>>
    /\ gapCall.needed = 2
    /\ gapCall.result = <<Deg(90), Deg(270)>>

\* C6: called with count <= 0, generateHues fails with InvalidCount for
\* every strategy.
C6_InvalidCountRaised ==
    (HueCalled(KnownStrategies) /\ hueCall.count <= 0) =>
        hueCall.out.kind = "InvalidCount"

\* C7: for every strategy name that is none of the six, generateHues raises
\* nothing and returns what it returns for evenly-spaced.
C7_UnknownNameFallsBack ==
    (hueCall.called /\ hueCall.strategy \notin KnownStrategies) =>
        hueCall.out = generateHues(hueCall.anchor, hueCall.count, "evenly-spaced")

\* A run of the pipeline on k >= 1 valid colours and a known strategy.
ValidRun ==
    /\ run.started
    /\ ~run.random
    /\ Len(run.result.colors) >= 1
    /\ \A j \in 1..Len(run.result.colors) : isValidHex(run.result.colors[j])
    /\ run.strategy \in KnownStrategies

\* The fills the claim expects: gap filling between the input hues when
\* k >= 2 and n > k, else the strategy's hues from index k on.
ExpectedFillHues(colors, n, strategy) ==
    LET k == Len(colors)
    IN  IF k >= 2 /\ n > k
        THEN fillLargestGaps([j \in 1..k |-> hexToHsl(colors[j])[1]], n - k)
        ELSE LET all == generateHues(hexToHsl(colors[1])[1], n, strategy).hues
             IN  [j \in 1..(Len(all) - k) |-> all[k + j]]

\* C8: for k >= 1 valid colours and a count n >= k the pipeline emits n
\* base colours, each with an 11-entry ramp; positions 1..k are the inputs
\* in input order, positions k+1..n the generated fills.
C8_InputsThenFills ==
    ValidRun =>
        LET r      == run.result
            k      == Len(r.colors)
            n      == r.count
            anchor == hexToHsl(r.colors[1])
            fills  == ExpectedFillHues(r.colors, n, run.strategy)
        IN  /\ r.exit = "0"
            /\ n >= k
            /\ Len(r.built) = n /\ Len(r.baseColors) = n /\ Len(r.output) = n
            /\ \A i \in 1..n :
                   /\ Len(r.output[i]) = 11
                   /\ \A j \in 1..11 :
                          /\ r.output[i][j].shade = SHADES[j]
                          /\ r.output[i][j].marker = (i <= k /\ SHADES[j] = 500)
            /\ \A i \in 1..k : r.built[i] = r.colors[i]
            /\ Len(fills) = n - k
            /\ \A j \in 1..(n - k) :
                   r.built[k + j] = hslToHex(fills[j], anchor[2], anchor[3])
            /\ run.raw => r.baseColors = r.built

C8_Witness ==
    /\ ValidRun
    /\ run.result.colors = <<Brown, Red>>
    /\ run.result.count = 4
    /\ run.result.exit = "0"
    /\ Len(run.result.baseColors) = 4
    /\ Len(run.result.output[4]) = 11

\* C9: without a mood preset the first base colour is left as it is, so
\* shade 500 of the first ramp is the first colour exactly; the colours at
\* positions 2 and later get the anchor's OKLCH lightness and chroma; with
\* the raw flag no base colour changes.
C9_AnchorUntouchedWithoutMood ==
    (run.started /\ run.result.exit = "0" /\ Len(run.result.colors) >= 1) =>
        LET r      == run.result
            anchor == hexToOklch(r.colors[1])
        IN  /\ run.mood = "none" =>
                  /\ r.baseColors[1] = r.colors[1]
                  /\ r.output[1][6].shade = 500
                  /\ r.output[1][6].hex = r.colors[1]
            /\ (run.mood = "none" /\ ~run.raw) =>
                  \A i \in 2..Len(r.baseColors) :
                      r.baseColors[i] =
                          oklchToHex(anchor[1], anchor[2], hexToOklch(r.built[i])[3])
            /\ run.raw => r.baseColors = r.built

C9_Witness ==
    /\ run.started
    /\ run.mood = "none"
    /\ ~run.raw
    /\ run.result.exit = "0"
    /\ run.result.colors = <<BrownUpper, Blue>>
    /\ run.result.baseColors[1] = BrownUpper
    /\ run.result.baseColors[2] # run.result.built[2]
    /\ run.result.output[1][6].hex = BrownUpper

\* The key offsets of the four harmonies, in degrees.
KeyOffsets(strategy) ==
    CASE strategy = "complementary"       -> <<0, 180>>
      [] strategy = "split-complementary" -> <<0, 150, 210>>
      [] strategy = "triadic"             -> <<0, 120, 240>>
      [] strategy = "tetradic"            -> <<0, 90, 180, 270>>

KeyStrategies == {"complementary", "split-complementary", "triadic", "tetradic"}

\* C10: under the four harmonies with key offsets K of length k, the first
\* min(count, k) hues are anchor + K[i] (mod 360) in order, and for
\* count > k each slot i in [k, count) holds anchor + i * (360 / count)
\* (mod 360).
C10_KeyAnglesThenEvenFill ==
    HueCalled(KeyStrategies) =>
        LET K     == KeyOffsets(hueCall.strategy)
            k     == Len(K)
            count == hueCall.count
            hues  == hueCall.out.hues
        IN  /\ hueCall.out.kind = "hues"
            /\ \A i \in 0..(Min(count, k) - 1) :
                   /\ i + 1 \in DOMAIN hues
                   /\ hues[i + 1] = (hueCall.anchor + Deg(K[i + 1])) % Turn
            /\ \A i \in k..(count - 1) :
                   /\ i + 1 \in DOMAIN hues
                   /\ Turn % count = 0
                   /\ hues[i + 1] = (hueCall.anchor + i * (Turn \div count)) % Turn

C10_Witness ==
    /\ HueCalled({"complementary"})
    /\ hueCall.count = MaxCount
    /\ hueCall.anchor = Deg(-30)
    /\ hueCall.out.hues[MaxCount] =
           (Deg(-30) + (MaxCount - 1) * (Turn \div MaxCount)) % Turn
    /\ MaxCount > 2

====
